---------------------------- MODULE Spec2Model ----------------------------
(* A model of VrepHelper (src/src/problems/shared/ros/VrepHelper.cpp): a   *)
(* client-side adapter that forwards calls to the V-REP simulator's ROS    *)
(* services and tracks the simulator's run state from the /vrep/info       *)
(* topic.  One client thread drives the adapter; a service call blocks it  *)
(* until the remote side answers or the call fails.  Status notifications  *)
(* are published at any time by the simulator and wait in the subscription *)
(* queue until the client thread spins (ros::spinOnce in isRunning).       *)
EXTENDS Integers, Sequences, FiniteSets, TLC

VARIABLES
    nodeSet,        \* setRosNode has run: clients and subscription exist
    running,        \* the member running_
    subQueue,       \* pending /vrep/info notifications (simulatorState values)
    pc,             \* where the client thread is
    op,             \* the public operation invoked last ("none" at first)
    args,           \* the arguments of that operation
    sent,           \* requests issued by the current invocation, in order
    resps,          \* the response records those calls left behind, in order
    ret,            \* what the last completed operation returned
    delivered,      \* history: the statuses handed to infoCallback, newest last
    obs             \* history: what the last isRunning found when it was called

vars == <<nodeSet, running, subQueue, pc, op, args, sent, resps, ret, delivered, obs>>

-----------------------------------------------------------------------------
(* The inputs the model draws from.                                        *)

\* queue_size argument of node_->subscribe("/vrep/info", 1, ...)
QueueSize == 1

\* simulatorState values of VrepInfo: 0 stopped, 1 running, 3 paused
\* (bit 0: not stopped, bit 1: paused)
StatusValues == {0, 1, 3}

\* result codes a remote service may put in response.result
ResultCodes == {-1, 0, 1, 2}

\* object handles: int32 values assigned by the simulator, -1 for "no object";
\* the wrappers carry them in a long, so storing one into the int32 field of a
\* request keeps its value
Handles == {-1, 0, 5}

ObjectNames == {"cup", "ghost"}

Positions == {<<0, 0, 0>>, <<1, 2, 3>>}

Poses == {"zero", "p1"}

ScenePaths == {"/a.ttt", "/pkg/problems/tag/b.ttt"}

Packages == {"tapir", "nopkg"}

ProblemNames == {"tag"}

RelativePaths == {"b.ttt"}

\* the values an out-of-bounds read of an int vector may produce
Garbage == {-1, 0, 77}

\* how many delivered statuses the history keeps
MaxHistory == 2

\* new-handle lists a copy response may carry
HandleLists == {<<>>, <<5>>, <<5, 0>>}

-----------------------------------------------------------------------------
(* Pure helpers.                                                           *)

\* ros::package::getPath: the package's directory, "" when it is unknown
GetPath(pkg) == IF pkg = "tapir" THEN "/pkg" ELSE ""

\* a default-constructed response record: what a failed call leaves behind
DefaultResponse ==
    [ok |-> FALSE, result |-> 0, handle |-> 0, newObjectHandles |-> <<>>, pose |-> "zero"]

\* the responses a call to `service` can leave in the service record
Responses(service) ==
    {DefaultResponse} \cup
    (IF ~nodeSet THEN {}
     ELSE CASE service \in {"start", "stop", "move", "load"} ->
                 {[DefaultResponse EXCEPT !.ok = TRUE, !.result = r] : r \in ResultCodes}
            [] service = "handle" ->
                 {[DefaultResponse EXCEPT !.ok = TRUE, !.handle = h] : h \in Handles}
            [] service = "copy" ->
                 {[DefaultResponse EXCEPT !.ok = TRUE, !.newObjectHandles = l] : l \in HandleLists}
            [] service = "pose" ->
                 {[DefaultResponse EXCEPT !.ok = TRUE, !.pose = p] : p \in Poses})

NoArgs == [name |-> "", handle |-> 0, pos |-> <<0, 0, 0>>, path |-> ""]

NoRet == [b |-> FALSE, n |-> 0, pose |-> "zero"]

Last(s) == s[Len(s)]

\* the last n elements of s
KeepLast(s, n) == IF Len(s) <= n THEN s ELSE SubSeq(s, Len(s) - n + 1, Len(s))


-----------------------------------------------------------------------------
(* What each wrapper computes from the response record of its call.        *)

StartResult(r) == r.result # -1

MoveResult_Positive(r) == r.result > 0

StopResult(r) == r.result # -1

HandleResult(r) == r.handle

MoveResult(r) == r.result # -1

PoseResult(r) == r.pose

LoadResult(r) == r.result = 1

\* the request records the wrappers populate
HandleRequest(name) == [service |-> "handle", objectName |-> name]

MoveRequest(handle, pos) ==
    [service |-> "move", handle |-> handle, relativeToObjectHandle |-> -1,
     position |-> pos]

CopyRequest(handle) == [service |-> "copy", objectHandles |-> <<handle>>]

PoseRequest(handle) ==
    [service |-> "pose", handle |-> handle, relativeToObjectHandle |-> -1]

LoadRequest(fullPath) == [service |-> "load", fileName |-> fullPath]

InfoCallback_Sticky(flag, status) == flag \/ (status = 1)

\* infoCallback: the new value of running_ for a notification carrying `status`
InfoCallback(flag, status) == (status = 1)

\* ros::spinOnce: every pending notification is handed to infoCallback in order
RECURSIVE SpinOnce(_, _)
SpinOnce(flag, queue) ==
    IF queue = <<>> THEN flag
    ELSE SpinOnce(InfoCallback(flag, Head(queue)), Tail(queue))

\* the subscription queue after one more notification arrives: when it is
\* full the oldest entry is dropped
Enqueue(queue, status) ==
    IF Len(queue) >= QueueSize THEN Append(Tail(queue), status)
    ELSE Append(queue, status)

-----------------------------------------------------------------------------
(* Construction.                                                           *)

\* VrepHelper(node) calls setRosNode; VrepHelper() leaves the node unset
Init ==
    /\ \/ nodeSet = TRUE
       \/ nodeSet = FALSE
    /\ running = FALSE
    /\ subQueue = <<>>
    /\ pc = "idle"
    /\ op = "none"
    /\ args = NoArgs
    /\ sent = <<>>
    /\ resps = <<>>
    /\ ret = NoRet
    /\ delivered = <<>>
    /\ obs = [pending |-> <<>>, flagBefore |-> FALSE]

SetRosNode ==
    /\ pc = "idle"
    /\ ~nodeSet
    /\ nodeSet' = TRUE
    /\ UNCHANGED <<running, subQueue, pc, op, args, sent, resps, ret, delivered, obs>>

\* the simulator publishes a status notification; it waits in the queue
Publish ==
    /\ nodeSet
    /\ \E s \in StatusValues : subQueue' = Enqueue(subQueue, s)
    /\ UNCHANGED <<nodeSet, running, pc, op, args, sent, resps, ret, delivered, obs>>

\* the first half of a wrapper: populate the request, issue the call, block
Invoke(name, a, request) ==
    /\ pc = "idle"
    /\ pc' = name
    /\ op' = name
    /\ args' = a
    /\ sent' = <<request>>
    /\ resps' = <<>>
    /\ UNCHANGED <<nodeSet, running, subQueue, ret, delivered, obs>>

\* the second half: the call came back leaving r, the wrapper returns
Return(name, r, value) ==
    /\ pc = name
    /\ pc' = "idle"
    /\ resps' = Append(resps, r)
    /\ ret' = value
    /\ UNCHANGED <<nodeSet, running, subQueue, op, args, sent, delivered, obs>>

-----------------------------------------------------------------------------
(* The operations.                                                         *)

Start == Invoke("start", NoArgs, [service |-> "start"])

StartReturn_SetsFlag ==
    \E r \in Responses("start") :
        /\ pc = "start"
        /\ pc' = "idle"
        /\ resps' = Append(resps, r)
        /\ ret' = [NoRet EXCEPT !.b = StartResult(r)]
        /\ running' = IF StartResult(r) THEN TRUE ELSE running
        /\ UNCHANGED <<nodeSet, subQueue, op, args, sent, delivered, obs>>

StartReturn ==
    \E r \in Responses("start") :
        Return("start", r, [NoRet EXCEPT !.b = StartResult(r)])

Stop == Invoke("stop", NoArgs, [service |-> "stop"])

StopReturn_Retry ==
    \E r \in Responses("stop") :
        IF r.ok
        THEN Return("stop", r, [NoRet EXCEPT !.b = StopResult(r)])
        ELSE /\ pc = "stop"
             /\ Len(sent) < 3
             /\ sent' = Append(sent, [service |-> "stop"])
             /\ resps' = Append(resps, r)
             /\ UNCHANGED <<nodeSet, running, subQueue, pc, op, args, ret, delivered, obs>>

StopReturn ==
    \E r \in Responses("stop") :
        Return("stop", r, [NoRet EXCEPT !.b = StopResult(r)])

GetHandle ==
    \E name \in ObjectNames :
        Invoke("getHandle", [NoArgs EXCEPT !.name = name], HandleRequest(name))

GetHandleReturn ==
    \E r \in Responses("handle") :
        Return("getHandle", r, [NoRet EXCEPT !.n = HandleResult(r)])

MoveObject ==
    \E h \in Handles, p \in Positions :
        Invoke("moveObject", [NoArgs EXCEPT !.handle = h, !.pos = p], MoveRequest(h, p))

MoveObjectReturn ==
    \E r \in Responses("move") :
        Return("moveObject", r, [NoRet EXCEPT !.b = MoveResult(r)])

\* moveObject(name, x, y, z): getHandle(name) is called first
MoveObjectByName ==
    \E name \in ObjectNames, p \in Positions :
        Invoke("moveObjectByName", [NoArgs EXCEPT !.name = name, !.pos = p],
               HandleRequest(name))

MoveObjectByNameLookedUp_ChecksHandle ==
    /\ pc = "moveObjectByName"
    /\ \E r \in Responses("handle") :
        /\ resps' = Append(resps, r)
        /\ args' = [args EXCEPT !.handle = HandleResult(r)]
        /\ IF HandleResult(r) = -1
           THEN /\ pc' = "idle"
                /\ ret' = NoRet
                /\ sent' = sent
           ELSE /\ pc' = "moveObjectByName_move"
                /\ ret' = ret
                /\ sent' = Append(sent, MoveRequest(HandleResult(r), args.pos))
    /\ UNCHANGED <<nodeSet, running, subQueue, op, delivered, obs>>

\* getHandle came back; its value goes to moveObject(handle, x, y, z), which
\* issues the position call
MoveObjectByNameLookedUp ==
    /\ pc = "moveObjectByName"
    /\ \E r \in Responses("handle") :
        /\ resps' = Append(resps, r)
        /\ args' = [args EXCEPT !.handle = HandleResult(r)]
        /\ sent' = Append(sent, MoveRequest(HandleResult(r), args.pos))
    /\ pc' = "moveObjectByName_move"
    /\ UNCHANGED <<nodeSet, running, subQueue, op, ret, delivered, obs>>

MoveObjectByNameReturn ==
    \E r \in Responses("move") :
        Return("moveObjectByName_move", r, [NoRet EXCEPT !.b = MoveResult(r)])

CopyObject ==
    \E h \in Handles :
        Invoke("copyObject", [NoArgs EXCEPT !.handle = h], CopyRequest(h))

\* newObjectHandles[0]: reading element 0 of an empty vector is undefined
\* behaviour; the build may return any value or fault
CopyObjectReturn ==
    \E r \in Responses("copy") :
        IF Len(r.newObjectHandles) >= 1
        THEN Return("copyObject", r, [NoRet EXCEPT !.n = r.newObjectHandles[1]])
        ELSE \/ \E g \in Garbage : Return("copyObject", r, [NoRet EXCEPT !.n = g])
             \/ /\ pc = "copyObject"
                /\ pc' = "crashed"
                /\ resps' = Append(resps, r)
                /\ UNCHANGED <<nodeSet, running, subQueue, op, args, sent, ret,
                               delivered, obs>>

GetPose ==
    \E h \in Handles :
        Invoke("getPose", [NoArgs EXCEPT !.handle = h], PoseRequest(h))

GetPoseReturn ==
    \E r \in Responses("pose") :
        Return("getPose", r, [NoRet EXCEPT !.pose = PoseResult(r)])

IsRunning_ReadsFirst ==
    /\ pc = "idle"
    /\ op' = "isRunning"
    /\ args' = NoArgs
    /\ sent' = <<>>
    /\ resps' = <<>>
    /\ running' = SpinOnce(running, subQueue)
    /\ subQueue' = <<>>
    /\ delivered' = KeepLast(delivered \o subQueue, MaxHistory)
    /\ ret' = [NoRet EXCEPT !.b = running]
    /\ obs' = [pending |-> subQueue, flagBefore |-> running]
    /\ UNCHANGED <<nodeSet, pc>>

\* isRunning: spin, then read the flag
IsRunning ==
    /\ pc = "idle"
    /\ op' = "isRunning"
    /\ args' = NoArgs
    /\ sent' = <<>>
    /\ resps' = <<>>
    /\ running' = SpinOnce(running, subQueue)
    /\ subQueue' = <<>>
    /\ delivered' = KeepLast(delivered \o subQueue, MaxHistory)
    /\ ret' = [NoRet EXCEPT !.b = running']
    /\ obs' = [pending |-> subQueue, flagBefore |-> running]
    /\ UNCHANGED <<nodeSet, pc>>

LoadScene ==
    \E path \in ScenePaths :
        Invoke("loadScene", [NoArgs EXCEPT !.path = path], LoadRequest(path))

\* loadScene(problemName, relativePath, packageName) builds the path and
\* calls loadScene(fullPath)
LoadSceneByProblem ==
    \E problemName \in ProblemNames, relativePath \in RelativePaths, pkg \in Packages :
        LET problemPath == GetPath(pkg) \o "/problems/" \o problemName
            fullPath == problemPath \o "/" \o relativePath
        IN Invoke("loadScene", [NoArgs EXCEPT !.path = fullPath], LoadRequest(fullPath))

LoadSceneReturn ==
    \E r \in Responses("load") :
        Return("loadScene", r, [NoRet EXCEPT !.b = LoadResult(r)])

Next ==
    \/ SetRosNode
    \/ Publish
    \/ Start
    \/ StartReturn
    \/ Stop
    \/ StopReturn
    \/ GetHandle
    \/ GetHandleReturn
    \/ MoveObject
    \/ MoveObjectReturn
    \/ MoveObjectByName
    \/ MoveObjectByNameLookedUp
    \/ MoveObjectByNameReturn
    \/ CopyObject
    \/ CopyObjectReturn
    \/ GetPose
    \/ GetPoseReturn
    \/ IsRunning
    \/ LoadScene
    \/ LoadSceneByProblem
    \/ LoadSceneReturn

Spec == Init /\ [][Next]_vars

-----------------------------------------------------------------------------
(* Properties.                                                             *)

Done == pc = "idle"

BoolWrappers == {"start", "stop", "moveObject", "moveObjectByName"}

\* C1 (as amended): when the remote service answers with result code R,
\* start, stop and both moveObject forms return (R # -1), and loadScene
\* returns (R = 1).
C1_ResultRule ==
    (Done /\ op \in BoolWrappers \cup {"loadScene"} /\ Last(resps).ok) =>
        IF op = "loadScene"
        THEN ret.b = (Last(resps).result = 1)
        ELSE ret.b = (Last(resps).result # -1)

\* C1 (as stated): every boolean wrapper, loadScene included, returns true
\* exactly when the result code R of the remote service is not -1.
C1_AllNotMinusOne ==
    (Done /\ op \in BoolWrappers \cup {"loadScene"} /\ Last(resps).ok) =>
        ret.b = (Last(resps).result # -1)

C1_Witness ==
    /\ Done /\ op = "loadScene" /\ Last(resps).ok
    /\ Last(resps).result = 2 /\ ret.b = FALSE

\* C2: running_ is false while no notification has been delivered, and
\* otherwise equals (s = 1) for the status s delivered last.
C2_FlagIsLastStatus ==
    running = (delivered # <<>> /\ Last(delivered) = 1)

C2_Witness ==
    /\ Len(delivered) = 2 /\ delivered[1] = 1 /\ delivered[2] = 3
    /\ running = FALSE

\* C3: isRunning returns what the newest pending notification says when one
\* is pending, whatever the flag was before the call, and the flag as it was
\* when nothing is pending.
C3_DrainsBeforeRead ==
    op = "isRunning" =>
        ret.b = (IF obs.pending # <<>> THEN Last(obs.pending) = 1 ELSE obs.flagBefore)

C3_Witness ==
    /\ op = "isRunning" /\ obs.pending = <<0>> /\ obs.flagBefore = TRUE
    /\ ret.b = FALSE

\* C4: isRunning returns true exactly when the status delivered last is not
\* the stopped state 0.
C4_TrueIffNotStopped ==
    (op = "isRunning" /\ delivered # <<>>) => ret.b = (Last(delivered) # 0)

\* C5: start, stop, moveObject and loadScene return false whenever the remote
\* call itself failed.
C5_FalseOnCallFailure ==
    (Done /\ op \in BoolWrappers \cup {"loadScene"} /\ ~Last(resps).ok) =>
        ret.b = FALSE

\* C6: getHandle returns the handle the simulator reports, and -1 when the
\* call failed without a response.
C6_HandleOrMinusOne ==
    (Done /\ op = "getHandle") =>
        ret.n = (IF Last(resps).ok THEN Last(resps).handle ELSE -1)

\* C7: moveObject by name issues the handle lookup for the given name, then,
\* once the lookup has answered, one position call carrying the handle the
\* lookup left (also -1), relativeToObjectHandle -1 and the given position;
\* it returns what moveObject by handle computes from the position call.
C7_LookupThenMove ==
    op = "moveObjectByName" =>
        /\ pc \in {"moveObjectByName", "moveObjectByName_move", "idle"}
        /\ sent[1] = [service |-> "handle", objectName |-> args.name]
        /\ pc = "moveObjectByName" => (Len(sent) = 1 /\ resps = <<>>)
        /\ pc # "moveObjectByName" =>
              /\ Len(sent) = 2 /\ Len(resps) >= 1
              /\ sent[2] = [service |-> "move", handle |-> resps[1].handle,
                            relativeToObjectHandle |-> -1, position |-> args.pos]
        /\ pc = "moveObjectByName_move" => Len(resps) = 1
        /\ pc = "idle" => (Len(resps) = 2 /\ ret.b = (resps[2].result # -1))

C7_Witness ==
    /\ Done /\ op = "moveObjectByName" /\ args.pos = <<1, 2, 3>>
    /\ resps[1].ok /\ resps[1].handle = -1
    /\ sent[2].handle = -1 /\ resps[2].result = 1 /\ ret.b = TRUE

ServiceOf(o) ==
    CASE o = "start" -> "start"
      [] o = "stop" -> "stop"
      [] o = "getHandle" -> "handle"
      [] o = "moveObject" -> "move"
      [] o = "copyObject" -> "copy"
      [] o = "getPose" -> "pose"
      [] o = "loadScene" -> "load"

SingleCallOps ==
    {"start", "stop", "getHandle", "moveObject", "copyObject", "getPose", "loadScene"}

\* C8: whatever the remote side does, an invocation issues one request to its
\* own service and no other; moveObject by name issues one handle request
\* and one position request.
C8_NoRetry ==
    /\ op \in SingleCallOps =>
          /\ Len(sent) = 1 /\ sent[1].service = ServiceOf(op)
          /\ Len(resps) = (IF pc = op THEN 0 ELSE 1)
    /\ op = "moveObjectByName" =>
          /\ Len(sent) = (IF pc = "moveObjectByName" THEN 1 ELSE 2)
          /\ sent[1].service = "handle"
          /\ Len(sent) = 2 => sent[2].service = "move"
          /\ Done => Len(resps) = 2

C8_Witness ==
    /\ Done /\ op = "stop" /\ nodeSet /\ ~Last(resps).ok /\ Len(sent) = 1

\* C9: a step of a remote-calling operation, and any step taken while one is
\* blocked in its call, leaves the flag as it is and delivers no
\* notification; so an isRunning that follows start or stop returns the old
\* flag unless a notification is pending, and then what that one says.
C9_Step ==
    /\ (pc # "idle" \/ pc' # "idle") =>
          /\ running' = running
          /\ delivered' = delivered
          /\ Len(subQueue') >= Len(subQueue)
    /\ (op \in {"start", "stop"} /\ op' = "isRunning") =>
          ret'.b = (IF subQueue = <<>> THEN running ELSE Last(subQueue) = 1)

C9_OnlyCallbackChangesFlag == [][C9_Step]_vars

C9_Witness ==
    /\ Done /\ op = "start" /\ Last(resps).ok /\ ret.b = TRUE
    /\ running = FALSE /\ subQueue = <<1>>

\* C10: copyObject(h) sends exactly the handle h, the read of element 0 of
\* the new-handle list is within the list, and that element is returned.
C10_CopyReadInBounds ==
    (op = "copyObject" /\ pc \in {"idle", "crashed"}) =>
        /\ sent = <<[service |-> "copy", objectHandles |-> <<args.handle>>]>>
        /\ Len(Last(resps).newObjectHandles) >= 1
        /\ ret.n = Last(resps).newObjectHandles[1]

=============================================================================
